---- MODULE Spec2Model ----
(***************************************************************************)
(* Model of the document RAG core of study-assistant:                      *)
(*   - DocumentProcessor.clean_text and DocumentProcessor.create_chunks    *)
(*     (src/utils/document_processor.py)                                   *)
(*   - RAGSystem create_index / save_index / load_index / search           *)
(*     (src/utils/rag_system.py)                                           *)
(* Text is a sequence of one-character strings; positions are 0-based as   *)
(* in the Python source, so text[i] of the source is txt[i + 1] here.      *)
(***************************************************************************)
EXTENDS Integers, Sequences, FiniteSets, TLC

VARIABLES
    norm,           \* clean_text driver: [pc, raw, once, twice]
    pc,             \* create_chunks: "call" | "loop" | "done"
    text,           \* create_chunks: local `text` (raw, then cleaned)
    chunk_size,     \* DocumentProcessor.chunk_size
    chunk_overlap,  \* DocumentProcessor.chunk_overlap
    start,          \* create_chunks: local `start`
    chunk_id,       \* create_chunks: local `chunk_id`
    chunks,         \* create_chunks: local `chunks`
    source_metadata,\* create_chunks: the `metadata` argument
    emb,            \* create_embeddings driver: [pc, texts, out, calls]
    doc,            \* upload handler: its position and the document row
    rag,            \* RAGSystem instance: [index, chunks, metadata]
    disk,           \* per base path: the .faiss and the .pkl artifact
    ret,            \* outcome of the last RAGSystem call
    trip,           \* progress of a create / save / fresh load sequence
    ready           \* a create_index or load_index has returned on this instance

chunkVars == <<pc, text, chunk_size, chunk_overlap, start, chunk_id, chunks,
               source_metadata>>
ragVars == <<rag, disk, ret, trip, ready>>
vars == <<norm, pc, text, chunk_size, chunk_overlap, start, chunk_id, chunks,
          source_metadata, emb, doc, rag, disk, ret, trip, ready>>

----------------------------------------------------------------------------
(* Bounds *)

MaxRawLen == 5        \* longest raw text given to clean_text
MaxTextLen == 7       \* longest raw text given to create_chunks
MaxChunkSize == 5     \* largest chunk_size configured
MaxChunks == 2        \* longest chunk list given to create_index
MaxMetaTextLen == 4
MaxTexts == 201
MaxSampleChunks == 12

----------------------------------------------------------------------------
(* Characters *)

SP == "SP"            \* ' '
NL == "NL"            \* '\n'
NUL == "NUL"          \* '\x00'
BEL == "BEL"          \* '\x07', a control character that is not whitespace

\* characters matched by the regex class \s and removed by str.strip()
Whitespace == {SP, NL}

CleanAlphabet == {"a", SP, NL, NUL, BEL}
ChunkAlphabet == {"a", ".", SP}

SeqsUpTo(S, n) == UNION {[1..k -> S] : k \in 0..n}

Max2(a, b) == IF a >= b THEN a ELSE b
Min2(a, b) == IF a <= b THEN a ELSE b

----------------------------------------------------------------------------
(* DocumentProcessor.clean_text *)

\* s without its longest prefix of characters from S
DropLeading(s, S) ==
    LET stops == {i \in 1..Len(s) : s[i] \notin S}
    IN  IF stops = {} THEN <<>>
        ELSE SubSeq(s, CHOOSE i \in stops : \A j \in stops : i <= j, Len(s))

\* length of the longest prefix of s made of characters from S
LeadingRun(s, S) == Len(s) - Len(DropLeading(s, S))

Reverse(s) == [i \in 1..Len(s) |-> s[Len(s) + 1 - i]]

\* re.sub(r'\s+', ' ', text): of every run of whitespace the first character
\* stays, as a space
CollapseWhitespace(s) ==
    LET kept == SelectSeq([i \in 1..Len(s) |-> i],
                          LAMBDA i : \/ s[i] \notin Whitespace
                                     \/ i = 1
                                     \/ s[i - 1] \notin Whitespace)
    IN  [j \in 1..Len(kept) |->
            IF s[kept[j]] \in Whitespace THEN SP ELSE s[kept[j]]]

\* re.sub(r'\n{3,}', '\n\n', text): of every run of three or more newlines
\* the first two stay
CollapseNewlines(s) ==
    LET kept == SelectSeq([i \in 1..Len(s) |-> i],
                          LAMBDA i : \/ s[i] # NL
                                     \/ i <= 2
                                     \/ s[i - 1] # NL
                                     \/ s[i - 2] # NL)
    IN  [j \in 1..Len(kept) |-> s[kept[j]]]

\* text.replace('\x00', '')
RemoveNul(s) == SelectSeq(s, LAMBDA c : c # NUL)

\* str.strip()
Strip(s) == Reverse(DropLeading(Reverse(DropLeading(s, Whitespace)), Whitespace))

clean_text(t) == Strip(RemoveNul(CollapseNewlines(CollapseWhitespace(t))))

----------------------------------------------------------------------------
(* DocumentProcessor.create_chunks *)

\* text[a:b] for 0 <= a
Slice(t, a, b) == SubSeq(t, a + 1, Min2(b, Len(t)))

\* text.rfind(ch, a, b) for 0 <= a: the highest 0-based position, or -1
RFind(t, ch, a, b) ==
    LET hits == {i \in a..(Min2(b, Len(t)) - 1) : t[i + 1] = ch}
    IN  IF hits = {} THEN -1 ELSE CHOOSE i \in hits : \A j \in hits : j <= i

\* an end that is moved to any sentence end of the window, however early
ChunkEndAnyBreak(t, s, size) ==
    LET e == s + size
        break_point == Max2(RFind(t, ".", s, e),
                            Max2(RFind(t, "!", s, e), RFind(t, "?", s, e)))
    IN  IF e < Len(t) /\ break_point >= s THEN break_point + 1 ELSE e

\* the end position chosen for the chunk that begins at s (lines 243-257)
ChunkEnd(t, s, size) ==
    LET e == s + size
    IN  IF e < Len(t)
        THEN LET last_period == RFind(t, ".", s, e)
                 last_exclamation == RFind(t, "!", s, e)
                 last_question == RFind(t, "?", s, e)
                 break_point == Max2(last_period,
                                     Max2(last_exclamation, last_question))
             IN  IF break_point > s + (size \div 2) THEN break_point + 1 ELSE e
        ELSE e

\* chunk_data built with an id that is never advanced
ChunkDataStaleId(chunk_text, id, s, e) ==
    [text |-> chunk_text, chunk_id |-> 0, char_start |-> s, char_end |-> e,
     chunk_size |-> Len(chunk_text)]

\* chunk_data (lines 263-269)
ChunkData(chunk_text, id, s, e) ==
    [text |-> chunk_text, chunk_id |-> id, char_start |-> s, char_end |-> e,
     chunk_size |-> Len(chunk_text)]

\* a test that keeps every window, the blank ones too
KeepChunkAlways(chunk_text) == TRUE

\* if chunk_text: (line 262)
KeepChunk(chunk_text) == chunk_text # <<>>

\* if metadata: (line 272) for the argument None, [] or a non-empty list
Truthy(metadata_arg) == metadata_arg.given /\ metadata_arg.list # <<>>

\* the test of lines 275-276 on one metadata entry
Contains(meta, s) ==
    /\ "char_start" \in DOMAIN meta
    /\ "char_end" \in DOMAIN meta
    /\ s >= meta["char_start"]
    /\ s < meta["char_end"]

\* the entry at which the loop would stop if it ran to the last match
LastMatch(hits) == CHOOSE i \in hits : \A j \in hits : j <= i

\* for meta in metadata: ... break (lines 274-279): the loop stops at the
\* first entry that passes the test
FirstMatch(hits) == CHOOSE i \in hits : \A j \in hits : i <= j

\* {k: v for k, v in meta.items() if k not in ['char_start', 'char_end']}
\* (lines 277-278)
Inherited(meta) ==
    [k \in DOMAIN meta \ {"char_start", "char_end"} |-> meta[k]]

\* dict.update (line 277)
Update(d, u) ==
    [k \in DOMAIN d \cup DOMAIN u |-> IF k \in DOMAIN u THEN u[k] ELSE d[k]]

\* chunk_data after lines 272-279
InheritMetadata(chunk_data, metadata_arg, s) ==
    IF ~Truthy(metadata_arg) THEN chunk_data
    ELSE LET list == metadata_arg.list
             hits == {i \in 1..Len(list) : Contains(list[i], s)}
         IN  IF hits = {} THEN chunk_data
             ELSE Update(chunk_data, Inherited(list[FirstMatch(hits)]))

\* the keys of chunk_data as it is built (lines 263-269)
BaseKeys == {"text", "chunk_id", "char_start", "char_end", "chunk_size"}

\* the end of the chunk that begins at s was moved to a sentence end
\* (lines 246-257)
SnapTaken(t, s, size) ==
    LET e == s + size
        break_point == Max2(RFind(t, ".", s, e),
                            Max2(RFind(t, "!", s, e), RFind(t, "?", s, e)))
    IN  e < Len(t) /\ break_point > s + (size \div 2)

\* an end that passes over the overlap
NextStartNoOverlap(e, overlap) == e

\* start = end - self.chunk_overlap (line 285)
NextStart(e, overlap) == e - overlap

\* a break test that stops the scan after its first window
LoopBreakAlways(s, e, text_length) == TRUE

\* the loop's break test (line 288)
LoopBreak(s, e, text_length) == s <= 0 \/ e >= text_length

----------------------------------------------------------------------------
(* RAGSystem: values *)

None == [none |-> TRUE]          \* Python None
Missing == [missing |-> TRUE]    \* a file that does not exist

\* create_chunks called without its metadata argument (line 222: metadata = None)
NoSegments == [given |-> FALSE, list |-> <<>>]

\* no upload under way and no document row; a NULL column is <<>>, a
\* column holding v is <<v>>
NoDoc == [pc |-> "idle", status |-> "absent", faiss_index_path |-> <<>>,
          chunk_count |-> <<>>, chunk_texts |-> <<>>, succeeded |-> <<>>,
          raised |-> ""]

\* no create_embeddings call under way
EmbIdle == [pc |-> "idle", texts |-> <<>>, out |-> <<>>, calls |-> 0]

Texts == {"t1", "t2"}         \* chunk texts
Queries == {"q1", "q2"}       \* query strings
Paths == {"p1"}               \* base paths of persisted indexes

\* the embedding backend's answer for one input (a fixed mock, so that
\* position i of an output can be told apart from position j)
Embedding(t) ==
    CASE t = "t1" -> <<0, 0>>
      [] t = "t2" -> <<2, 0>>
      [] t = "q1" -> <<0, 1>>
      [] t = "q2" -> <<3, 0>>

\* the distance FAISS reports for a result slot it could not fill
FltMax == 1000

\* batch_size (line 49)
batch_size == 100

\* a list of n chunk texts that alternates between the two texts
Alternating(n, first, second) ==
    [i \in 1..n |-> IF i % 2 = 1 THEN first ELSE second]

\* the chunk lists a caller may pass to create_index: one of every length up
\* to MaxChunks, and a second one of the greatest length with other texts
ChunkLists ==
    {Alternating(n, "t1", "t2") : n \in 0..MaxChunks}
        \cup {Alternating(MaxChunks, "t2", "t1")}

\* a metadata list of n dicts, as process_document builds it
MetaList(n) == [i \in 1..n |-> {<<"chunk_id", i - 1>>}]

\* the metadata arguments a caller may pass to create_index: None, a list
\* of one entry, or a list of MaxChunks entries
MetaArgs == {[given |-> FALSE, list |-> <<>>]}
                \cup {[given |-> TRUE, list |-> MetaList(n)] : n \in {1, MaxChunks}}

\* [{"index": i} for i in range(len(chunks))] (line 75)
DefaultMetadata(n) == [i \in 1..n |-> {<<"index", i - 1>>}]

----------------------------------------------------------------------------
(* RAGSystem.create_embeddings *)

\* an extend that puts the new batch in front
ExtendAtFront(embeddings, batch_embeddings) == batch_embeddings \o embeddings

\* embeddings.extend(batch_embeddings) (line 59)
Extend(embeddings, batch_embeddings) == embeddings \o batch_embeddings

RECURSIVE EmbedBatches(_, _)
\* lines 50-59: the outputs of the batches texts[i:i+batch_size], extended
\* onto `embeddings` in call order
EmbedBatches(texts, embeddings) ==
    IF texts = <<>> THEN embeddings
    ELSE LET n == Min2(batch_size, Len(texts))
             batch == SubSeq(texts, 1, n)
             batch_embeddings == [j \in 1..n |-> Embedding(batch[j])]
         IN  EmbedBatches(SubSeq(texts, n + 1, Len(texts)),
                          Extend(embeddings, batch_embeddings))

\* the embeddings list when every backend call succeeds (lines 46-61)
create_embeddings(texts) == EmbedBatches(texts, <<>>)

\* a batch count that is one too many when n is a multiple of batch_size
BatchCountOffByOne(n) == n \div batch_size + 1

\* number of backend calls create_embeddings makes for n texts (line 50)
BatchCount(n) == (n + batch_size - 1) \div batch_size

----------------------------------------------------------------------------
(* FAISS IndexFlatL2 as used by RAGSystem *)

RECURSIVE Flatten(_)
Flatten(rows) == IF rows = <<>> THEN <<>> ELSE Head(rows) \o Flatten(Tail(rows))

\* faiss.IndexFlatL2(dimension) followed by index.add(embeddings) (lines 81-83)
IndexFlatL2(dimension, embeddings) ==
    [d |-> dimension, ntotal |-> Len(embeddings), xb |-> Flatten(embeddings)]

\* the vector stored at 0-based position i
VectorAt(index, i) == SubSeq(index.xb, i * index.d + 1, (i + 1) * index.d)

RECURSIVE SumSq(_, _)
SumSq(u, v) ==
    IF u = <<>> THEN 0
    ELSE (Head(u) - Head(v)) * (Head(u) - Head(v)) + SumSq(Tail(u), Tail(v))

\* squared L2 distance from the query to the vector at position i
Distance(index, q, i) == SumSq(q, VectorAt(index, i))

RECURSIVE Nearest(_, _, _, _)
\* the k nearest positions among `cand`, nearest first, ties by position
Nearest(index, q, cand, k) ==
    IF k = 0 \/ cand = {} THEN <<>>
    ELSE LET best == CHOOSE i \in cand : \A j \in cand :
                        \/ Distance(index, q, i) < Distance(index, q, j)
                        \/ (Distance(index, q, i) = Distance(index, q, j) /\ i <= j)
         IN  <<best>> \o Nearest(index, q, cand \ {best}, k - 1)

\* index.search(query_embedding, k) (line 144): k slots of <<idx, distance>>;
\* the slots beyond ntotal hold idx -1 and the largest float
IndexSearch(index, q, k) ==
    LET found == Nearest(index, q, 0..(index.ntotal - 1), k)
    IN  [s \in 1..k |->
            IF s <= Len(found) THEN <<found[s], Distance(index, q, found[s])>>
            ELSE <<-1, FltMax>>]

\* faiss.write_index (line 101): header d, ntotal, then the vector payload
WriteIndex(index) == [header |-> <<index.d, index.ntotal>>, codes |-> index.xb]

\* faiss.read_index (line 118)
ReadIndex(file) ==
    [d |-> file.header[1], ntotal |-> file.header[2], xb |-> file.codes]

\* a side table written without the metadata list
SideTableChunksOnly(c, m) == [chunks |-> c, metadata |-> <<>>]

\* the dict pickled by save_index (lines 105-108)
SideTable(c, m) == [chunks |-> c, metadata |-> m]

\* a loader that treats a missing side table as an empty one
OpenPklLenient(file) ==
    IF file = Missing THEN [ok |-> TRUE, data |-> [chunks |-> <<>>, metadata |-> <<>>]]
    ELSE [ok |-> TRUE, data |-> file]

\* open(f"{index_path}.pkl", 'rb') and pickle.load (lines 121-122)
OpenPkl(file) ==
    IF file = Missing THEN [ok |-> FALSE, data |-> [chunks |-> <<>>, metadata |-> <<>>]]
    ELSE [ok |-> TRUE, data |-> file]

----------------------------------------------------------------------------
(* RAGSystem.search: resolving positions to chunks (lines 147-156) *)

\* whether list[idx] is a valid Python subscript
InRange(list, idx) == -Len(list) <= idx /\ idx < Len(list)

\* list[idx], a negative idx counting from the end
Subscript(list, idx) == IF idx >= 0 THEN list[idx + 1] ELSE list[Len(list) + idx + 1]

\* the slots that pass the test `idx < len(self.chunks)` (line 149)
Accepted(r, slots) == SelectSeq(slots, LAMBDA sl : sl[1] < Len(r.chunks))

\* whether building the result list raises IndexError (lines 151-152)
ResolveRaises(r, slots) ==
    \E s \in 1..Len(Accepted(r, slots)) :
        LET idx == Accepted(r, slots)[s][1]
        IN  ~InRange(r.chunks, idx) \/ ~InRange(r.metadata, idx)

\* the list of (chunk_text, metadata, distance) (lines 147-156)
Resolve(r, slots) ==
    LET acc == Accepted(r, slots)
    IN  [s \in 1..Len(acc) |->
            <<Subscript(r.chunks, acc[s][1]),
              Subscript(r.metadata, acc[s][1]),
              acc[s][2]>>]

----------------------------------------------------------------------------
(* RAGSystem: state and operations *)

\* __init__ (lines 32-34)
FreshRag == [index |-> None, chunks |-> <<>>, metadata |-> <<>>]

NoFiles == [p \in Paths |-> [faiss |-> Missing, pkl |-> Missing]]

\* what the last call was and did: its name, its path argument, whether it
\* returned (ok) or raised, the value returned, the embedding backend calls
\* it made, for search and chat the query and k, for chat the chat_history
\* and temperature arguments, the generation backend calls it made and what
\* it handed to that backend, and for the generation calls the local
\* sample_indices
Ret(op, path, ok, val, calls) ==
    [op |-> op, path |-> path, ok |-> ok, val |-> val, calls |-> calls,
     query |-> "", k |-> 0, gen_calls |-> 0, sent |-> <<>>,
     chat_history |-> <<>>, temperature |-> 0, sample_indices |-> <<>>]

NoCall == Ret("none", "", TRUE, <<>>, 0)

\* trip.phase: 0 none, 1 create_index returned, 2 then save_index(path)
\* returned, 3 then a fresh RAGSystem was constructed, 4 then load_index(path)
\* returned; trip.saved is the instance as it was when save_index returned
NoTrip == [phase |-> 0, path |-> "", saved |-> FreshRag]

RagIdle ==
    /\ rag = FreshRag
    /\ disk = NoFiles
    /\ ret = NoCall
    /\ trip = NoTrip
    /\ ready = FALSE

\* RAGSystem(...) constructed anew, as each page does before load_index
NewRAGSystem ==
    /\ rag' = FreshRag
    /\ ret' = Ret("init", "", TRUE, <<>>, 0)
    /\ trip' = IF trip.phase = 2 THEN [trip EXCEPT !.phase = 3] ELSE NoTrip
    /\ ready' = FALSE
    /\ UNCHANGED <<disk, norm, emb, doc, chunkVars>>

\* create_index(c, m) (lines 74-85); backend_ok: the embedding calls succeed
create_index(c, m, backend_ok) ==
    LET meta == IF m.given /\ m.list # <<>> THEN m.list
                ELSE DefaultMetadata(Len(c))
        assigned == [rag EXCEPT !.chunks = c, !.metadata = meta]
    IN  IF BatchCount(Len(c)) > 0 /\ ~backend_ok
        THEN \* create_embeddings raises (line 53)
             /\ rag' = assigned
             /\ ret' = Ret("create_index", "", FALSE, <<>>, 1)
             /\ trip' = NoTrip
        ELSE IF Len(c) = 0
        THEN \* embeddings.shape[1] raises IndexError (line 81)
             /\ rag' = assigned
             /\ ret' = Ret("create_index", "", FALSE, <<>>, BatchCount(Len(c)))
             /\ trip' = NoTrip
        ELSE /\ rag' = [assigned EXCEPT
                          !.index = IndexFlatL2(Len(Embedding(c[1])),
                                                create_embeddings(c))]
             /\ ret' = Ret("create_index", "", TRUE, <<>>, BatchCount(Len(c)))
             /\ trip' = [phase |-> 1, path |-> "", saved |-> FreshRag]

CreateIndex ==
    /\ \E c \in ChunkLists, m \in MetaArgs, backend_ok \in BOOLEAN :
          create_index(c, m, backend_ok)
    /\ ready' = (ready \/ ret'.ok)
    /\ UNCHANGED <<disk, norm, emb, doc, chunkVars>>

\* save_index(p) (lines 94-108); io_ok: the .pkl file can be opened for writing
save_index(p, io_ok) ==
    IF rag.index = None
    THEN /\ ret' = Ret("save_index", p, FALSE, <<>>, 0)
         /\ trip' = NoTrip
         /\ UNCHANGED disk
    ELSE IF ~io_ok
    THEN /\ disk' = [disk EXCEPT ![p].faiss = WriteIndex(rag.index)]
         /\ ret' = Ret("save_index", p, FALSE, <<>>, 0)
         /\ trip' = NoTrip
    ELSE /\ disk' = [disk EXCEPT ![p] = [faiss |-> WriteIndex(rag.index),
                                         pkl |-> SideTable(rag.chunks, rag.metadata)]]
         /\ ret' = Ret("save_index", p, TRUE, <<>>, 0)
         /\ trip' = IF trip.phase = 1
                    THEN [phase |-> 2, path |-> p, saved |-> rag]
                    ELSE NoTrip

SaveIndex ==
    /\ \E p \in Paths, io_ok \in BOOLEAN : save_index(p, io_ok)
    /\ UNCHANGED <<rag, ready, norm, emb, doc, chunkVars>>

\* load_index(p) (lines 117-124)
load_index(p) ==
    IF disk[p].faiss = Missing
    THEN \* faiss.read_index raises (line 118)
         /\ ret' = Ret("load_index", p, FALSE, <<>>, 0)
         /\ trip' = NoTrip
         /\ UNCHANGED rag
    ELSE LET pkl == OpenPkl(disk[p].pkl)
             loaded == [rag EXCEPT !.index = ReadIndex(disk[p].faiss)]
         IN  IF ~pkl.ok
             THEN \* open raises (line 121), after line 118 has assigned
                  /\ rag' = loaded
                  /\ ret' = Ret("load_index", p, FALSE, <<>>, 0)
                  /\ trip' = NoTrip
             ELSE /\ rag' = [loaded EXCEPT !.chunks = pkl.data.chunks,
                                           !.metadata = pkl.data.metadata]
                  /\ ret' = Ret("load_index", p, TRUE, <<>>, 0)
                  /\ trip' = IF trip.phase = 3 /\ trip.path = p
                             THEN [trip EXCEPT !.phase = 4]
                             ELSE NoTrip

LoadIndex ==
    /\ \E p \in Paths : load_index(p)
    /\ ready' = (ready \/ ret'.ok)
    /\ UNCHANGED <<disk, norm, emb, doc, chunkVars>>

\* the largest k a caller passes to search
MaxK == MaxChunks + 1

\* search(query, k) (lines 137-156); backend_ok: the embedding call succeeds
search(query, k, backend_ok) ==
    LET Out(ok, val, calls) ==
            [Ret("search", "", ok, val, calls) EXCEPT !.query = query, !.k = k]
    IN  IF rag.index = None
        THEN ret' = Out(FALSE, <<>>, 0)
        ELSE IF ~backend_ok
        THEN ret' = Out(FALSE, <<>>, 1)
        ELSE LET query_embedding == create_embeddings(<<query>>)
                 slots == IndexSearch(rag.index, query_embedding[1], k)
             IN  IF ResolveRaises(rag, slots)
                 THEN ret' = Out(FALSE, <<>>, 1)
                 ELSE ret' = Out(TRUE, Resolve(rag, slots), 1)

Search ==
    /\ \E query \in Queries, k \in 1..MaxK, backend_ok \in BOOLEAN :
          search(query, k, backend_ok)
    /\ trip' = NoTrip
    /\ UNCHANGED <<rag, disk, ready, norm, emb, doc, chunkVars>>

----------------------------------------------------------------------------
(* RAGSystem.generate_response, chat, generate_quiz_questions,             *)
(* generate_flashcards                                                     *)

\* one entry of the message list given to the generation backend: its role
\* and its content, the content being a fixed text with, for the user turn,
\* the context and the question placed in it
Message(role, content, context, question) ==
    [role |-> role, content |-> content, context |-> context,
     question |-> question]

\* a numbering of the context entries that starts at 0
ContextBlockZeroBased(context_chunks) ==
    [i \in 1..Len(context_chunks) |->
        [label |-> i - 1, chunk |-> context_chunks[i]]]

\* the context string (lines 178-179): entry i is "[Context i]\n<chunk>"
ContextBlock(context_chunks) ==
    [i \in 1..Len(context_chunks) |->
        [label |-> i, chunk |-> context_chunks[i]]]

\* messages (lines 188-204)
ChatMessages(query, context_chunks, chat_history) ==
    <<Message("system", "study_assistant_prompt", <<>>, "")>>
        \o chat_history
        \o <<Message("user", "context_and_question",
                     ContextBlock(context_chunks), query)>>

\* temperatures in tenths: 0.7 (lines 161, 218, 341), 0.8 (line 296)
DefaultTemperature == 7
QuizTemperature == 8
FlashcardTemperature == 7

\* a call that leaves the temperature argument out
SentDefaultTemperature(messages, temperature, max_tokens) ==
    [messages |-> messages, temperature |-> DefaultTemperature,
     max_tokens |-> max_tokens]

\* what a call hands to client.chat.completions.create
Sent(messages, temperature, max_tokens) ==
    [messages |-> messages, temperature |-> temperature,
     max_tokens |-> max_tokens]

\* max_tokens (lines 162, 297, 342)
ChatMaxTokens == 1000
GenerationMaxTokens == 2000

\* num_chunks = min(10, len(self.chunks)) (lines 269, 316)
SampleSize == 10

\* context_chunks (line 235)
ContextChunks(search_results) ==
    [i \in 1..Len(search_results) |-> search_results[i][1]]

\* sources (lines 236-242)
Sources(search_results) ==
    [i \in 1..Len(search_results) |->
        [text |-> search_results[i][1],
         metadata |-> search_results[i][2],
         distance |-> search_results[i][3]]]

\* the chat_history and temperature arguments a caller may pass to chat
ChatCalls ==
    {[chat_history |-> <<>>, temperature |-> DefaultTemperature],
     [chat_history |-> <<Message("user", "earlier_question", <<>>, ""),
                         Message("assistant", "earlier_answer", <<>>, "")>>,
      temperature |-> 2]}

\* chat(query, k, chat_history, temperature) (lines 231-252); embed_ok and
\* gen_ok: the embedding call and the generation call succeed
chat(query, k, call, embed_ok, gen_ok) ==
    LET Out(ok, val, calls, gen_calls, sent) ==
            [Ret("chat", "", ok, val, calls) EXCEPT
                !.query = query, !.k = k, !.gen_calls = gen_calls, !.sent = sent,
                !.chat_history = call.chat_history,
                !.temperature = call.temperature]
    IN  /\ rag' = rag
        /\ IF rag.index = None
           THEN ret' = Out(FALSE, <<>>, 0, 0, <<>>)
           ELSE IF ~embed_ok
           THEN ret' = Out(FALSE, <<>>, 1, 0, <<>>)
           ELSE LET query_embedding == create_embeddings(<<query>>)
                    slots == IndexSearch(rag.index, query_embedding[1], k)
                IN  IF ResolveRaises(rag, slots)
                    THEN ret' = Out(FALSE, <<>>, 1, 0, <<>>)
                    ELSE LET search_results == Resolve(rag, slots)
                             sent == Sent(ChatMessages(query,
                                              ContextChunks(search_results),
                                              call.chat_history),
                                          call.temperature, ChatMaxTokens)
                         IN  IF ~gen_ok
                             THEN ret' = Out(FALSE, <<>>, 1, 1, sent)
                             ELSE ret' = Out(TRUE,
                                             [response |-> "answer",
                                              sources |-> Sources(search_results)],
                                             1, 1, sent)

Chat ==
    /\ \E query \in Queries, k \in 1..MaxK, call \in ChatCalls,
          oks \in {<<TRUE, TRUE>>, <<FALSE, TRUE>>, <<TRUE, FALSE>>} :
          chat(query, k, call, oks[1], oks[2])
    /\ trip' = NoTrip
    /\ UNCHANGED <<disk, ready, norm, emb, doc, chunkVars>>

\* outcomes of np.random.choice(n, min(10, n), replace=False): the draws
\* that begin at any position and walk the positions upwards or downwards,
\* which are all the orders for n <= 3
SampleOrders(n) ==
    IF n = 0 THEN {<<>>}
    ELSE {[i \in 1..Min2(SampleSize, n) |-> (first + (i - 1) * step) % n] :
             first \in 0..(n - 1), step \in {1, n - 1}}

\* the texts the generation backend may answer with: a JSON array of
\* records, a text that is no JSON, an empty text
Contents == {"json_array", "not_json", ""}

\* a sample that takes every chunk of the instance
SampleChunksAll(r, sample_indices) == r.chunks

\* sample_chunks (lines 271, 318)
SampleChunks(r, sample_indices) ==
    [i \in 1..Len(sample_indices) |-> r.chunks[sample_indices[i] + 1]]

\* the value of response.choices[0].message.content, returned as it is
\* (lines 301, 345)
RawContent(content) == [type |-> "str", response |-> content]

\* a quiz generation that keeps its sample as the instance's chunk list
generate_quiz_in_place(sample_indices, gen_ok, content) ==
    /\ rag' = [rag EXCEPT !.chunks = SampleChunks(rag, sample_indices)]
    /\ ret' = [Ret("generate_quiz_questions", "", gen_ok,
                   IF gen_ok THEN RawContent(content) ELSE <<>>, 0)
               EXCEPT !.gen_calls = 1]

\* generate_quiz_questions() (lines 268-301)
generate_quiz_questions(sample_indices, gen_ok, content) ==
    LET sent == Sent(<<Message("system", "quiz_generator_prompt", <<>>, ""),
                       Message("user", "quiz_prompt",
                               SampleChunks(rag, sample_indices), "")>>,
                     QuizTemperature, GenerationMaxTokens)
    IN  /\ rag' = rag
        /\ ret' = [Ret("generate_quiz_questions", "", gen_ok,
                       IF gen_ok THEN RawContent(content) ELSE <<>>, 0)
                   EXCEPT !.gen_calls = 1, !.sent = sent,
                          !.sample_indices = sample_indices]

GenerateQuiz ==
    /\ \E sample_indices \in SampleOrders(Len(rag.chunks)), gen_ok \in BOOLEAN,
          content \in Contents :
          generate_quiz_questions(sample_indices, gen_ok, content)
    /\ trip' = NoTrip
    /\ UNCHANGED <<disk, ready, norm, emb, doc, chunkVars>>

\* generate_flashcards() (lines 315-345)
generate_flashcards(sample_indices, gen_ok, content) ==
    LET sent == Sent(<<Message("system", "flashcard_generator_prompt", <<>>, ""),
                       Message("user", "flashcard_prompt",
                               SampleChunks(rag, sample_indices), "")>>,
                     FlashcardTemperature, GenerationMaxTokens)
    IN  /\ rag' = rag
        /\ ret' = [Ret("generate_flashcards", "", gen_ok,
                       IF gen_ok THEN RawContent(content) ELSE <<>>, 0)
                   EXCEPT !.gen_calls = 1, !.sent = sent,
                          !.sample_indices = sample_indices]

GenerateFlashcards ==
    /\ \E sample_indices \in SampleOrders(Len(rag.chunks)), gen_ok \in BOOLEAN,
          content \in Contents :
          generate_flashcards(sample_indices, gen_ok, content)
    /\ trip' = NoTrip
    /\ UNCHANGED <<disk, ready, norm, emb, doc, chunkVars>>

\* deleting a document removes its index files with cleanup_file, which
\* swallows a failed os.remove (documents.py lines 416-418)
CleanupIndexFiles ==
    /\ \E p \in Paths, faiss_removed \in BOOLEAN, pkl_removed \in BOOLEAN :
          disk' = [disk EXCEPT
                     ![p].faiss = IF faiss_removed THEN Missing ELSE @,
                     ![p].pkl = IF pkl_removed THEN Missing ELSE @]
    /\ ret' = Ret("cleanup", "", TRUE, <<>>, 0)
    /\ trip' = NoTrip
    /\ UNCHANGED <<rag, ready, norm, emb, doc, chunkVars>>

Init ==
    /\ RagIdle
    /\ norm = [pc |-> "idle", raw |-> <<>>, once |-> <<>>, twice |-> <<>>]
    /\ pc = "idle"
    /\ text = <<>>
    /\ chunk_size = 1
    /\ chunk_overlap = 0
    /\ start = 0
    /\ chunk_id = 0
    /\ chunks = <<>>
    /\ source_metadata = NoSegments
    /\ emb = EmbIdle
    /\ doc = NoDoc

Next ==
    \/ NewRAGSystem
    \/ CreateIndex
    \/ SaveIndex
    \/ LoadIndex
    \/ Search
    \/ CleanupIndexFiles

Spec == Init /\ [][Next]_vars

\* the query and generation calls on an instance that is built in memory
GenNext ==
    \/ NewRAGSystem
    \/ CreateIndex
    \/ Search
    \/ Chat
    \/ GenerateQuiz
    \/ GenerateFlashcards

GenSpec == Init /\ [][GenNext]_vars

\* the instance after create_index(c) has returned
Built(c) ==
    [index |-> IndexFlatL2(Len(Embedding(c[1])), create_embeddings(c)),
     chunks |-> c, metadata |-> DefaultMetadata(Len(c))]

\* the generation calls on an instance of any size up to MaxSampleChunks,
\* built by create_index, or left without an index for the empty list
SampleInit ==
    /\ \E n \in 0..MaxSampleChunks :
          /\ rag = IF n = 0 THEN FreshRag
                   ELSE Built(Alternating(n, "t1", "t2"))
          /\ ready = (n > 0)
    /\ disk = NoFiles
    /\ ret = NoCall
    /\ trip = NoTrip
    /\ norm = [pc |-> "idle", raw |-> <<>>, once |-> <<>>, twice |-> <<>>]
    /\ pc = "idle"
    /\ text = <<>>
    /\ chunk_size = 1
    /\ chunk_overlap = 0
    /\ start = 0
    /\ chunk_id = 0
    /\ chunks = <<>>
    /\ source_metadata = NoSegments
    /\ emb = EmbIdle
    /\ doc = NoDoc

SampleNext == GenerateQuiz \/ GenerateFlashcards

SampleSpec == SampleInit /\ [][SampleNext]_vars

----------------------------------------------------------------------------
(* create_chunks as a state machine *)

\* a diverging scan appends without end; a scan that terminates emits at
\* most one chunk per text position, so this cap is never met by one
ChunkCap == MaxTextLen + 2

ChunkInit ==
    /\ pc = "call"
    /\ text \in SeqsUpTo(ChunkAlphabet, MaxTextLen)
    /\ chunk_size \in 1..MaxChunkSize
    /\ chunk_overlap \in 0..(chunk_size - 1)
    /\ start = 0
    /\ chunk_id = 0
    /\ chunks = <<>>
    /\ source_metadata = NoSegments
    /\ emb = EmbIdle
    /\ doc = NoDoc
    /\ norm = [pc |-> "idle", raw |-> <<>>, once |-> <<>>, twice |-> <<>>]
    /\ RagIdle

\* lines 233-239: clean the text and initialise the scan
ChunkEnter ==
    /\ pc = "call"
    /\ text' = clean_text(text)
    /\ start' = 0
    /\ chunk_id' = 0
    /\ chunks' = <<>>
    /\ pc' = "loop"
    /\ UNCHANGED <<chunk_size, chunk_overlap, source_metadata, norm, emb, doc,
                    ragVars>>

\* one iteration of the while loop (lines 241-289)
ChunkIterate ==
    /\ pc = "loop"
    /\ start < Len(text)
    /\ Len(chunks) < ChunkCap
    /\ LET e == ChunkEnd(text, start, chunk_size)
           chunk_text == Strip(Slice(text, start, e))
           new_start == NextStart(e, chunk_overlap)
       IN  /\ IF KeepChunk(chunk_text)
              THEN /\ chunks' = Append(chunks,
                            InheritMetadata(
                                ChunkData(chunk_text, chunk_id, start, e),
                                source_metadata, start))
                   /\ chunk_id' = chunk_id + 1
              ELSE UNCHANGED <<chunks, chunk_id>>
           /\ start' = new_start
           /\ pc' = IF LoopBreak(new_start, e, Len(text)) THEN "done" ELSE "loop"
    /\ UNCHANGED <<text, chunk_size, chunk_overlap, source_metadata, norm, emb,
                    doc, ragVars>>

\* the while condition is false (line 241), return chunks (line 291)
ChunkExit ==
    /\ pc = "loop"
    /\ ~(start < Len(text))
    /\ pc' = "done"
    /\ UNCHANGED <<text, chunk_size, chunk_overlap, source_metadata, start,
                    chunk_id, chunks, norm, emb, doc,
                    ragVars>>

ChunkNext == ChunkEnter \/ ChunkIterate \/ ChunkExit

ChunkSpec == ChunkInit /\ [][ChunkNext]_vars

----------------------------------------------------------------------------
(* The upload handler of the documents page (documents.py lines 139-211)   *)
(* and the document row it writes (db_manager.py)                          *)

\* an update that writes the status column only
update_status_only(row, status, path, count) == [row EXCEPT !.status = status]

\* update_document_processing (db_manager.py lines 459-475); path and count
\* are <<>> for an argument left at None
update_document_processing(row, status, path, count) ==
    IF path # <<>> /\ path[1] # "" /\ count # <<>> /\ count[1] # 0
    THEN [row EXCEPT !.status = status, !.faiss_index_path = path,
                     !.chunk_count = count]
    ELSE [row EXCEPT !.status = status]

\* a handler that goes on after a step has raised
AfterStepIgnoringFailure(ok, next_pc) == next_pc

\* where the handler goes after a step of its try block (lines 156-208):
\* on, or to the except clause when the step raised
AfterStep(ok, next_pc) == IF ok THEN next_pc ELSE "except"

\* the handler's note of a step that returned or raised
Noted(d, step, ok, next_pc) ==
    [d EXCEPT !.pc = AfterStep(ok, next_pc),
              !.succeeded = IF ok THEN Append(@, step) ELSE @,
              !.raised = IF ok \/ @ # "" THEN @ ELSE step]

\* index_path = f"{index_dir}/doc_{document_id}" (line 189)
index_path == "p1"

\* db.create_document(...) (lines 139-146, db_manager.py lines 429-439)
CreateDocument ==
    /\ doc.pc = "idle"
    /\ doc' = [doc EXCEPT !.pc = "created", !.status = "pending"]
    /\ UNCHANGED <<norm, emb, chunkVars, ragVars>>

\* db.update_document_processing(document_id, "processing") (line 159)
MarkProcessing ==
    /\ doc.pc = "created"
    /\ doc' = [update_document_processing(doc, "processing", <<>>, <<>>)
                  EXCEPT !.pc = "process_document"]
    /\ UNCHANGED <<norm, emb, chunkVars, ragVars>>

\* processor.process_document(file_path) (lines 163-166): it returns the
\* chunk texts of the document, none for an empty document, or raises
ProcessDocument ==
    /\ doc.pc = "process_document"
    /\ \E c \in ChunkLists, ok \in BOOLEAN :
          doc' = [Noted(doc, "process_document", ok, "settings")
                    EXCEPT !.chunk_texts = IF ok THEN c ELSE <<>>]
    /\ UNCHANGED <<norm, emb, chunkVars, ragVars>>

\* settings = db.get_user_settings(user_id); rag = RAGSystem(...)
\* (lines 171-180): raises when the user has no settings row
NewUploadRag ==
    /\ doc.pc = "settings"
    /\ \E ok \in BOOLEAN :
          /\ doc' = Noted(doc, "settings", ok, "create_index")
          /\ rag' = IF ok THEN FreshRag ELSE rag
          /\ ret' = IF ok THEN Ret("init", "", TRUE, <<>>, 0) ELSE ret
          /\ ready' = IF ok THEN FALSE ELSE ready
    /\ trip' = NoTrip
    /\ UNCHANGED <<disk, norm, emb, chunkVars>>

\* rag.create_index(chunk_texts, chunk_metadata) (line 183)
UploadCreateIndex ==
    /\ doc.pc = "create_index"
    /\ \E backend_ok \in BOOLEAN :
          create_index(doc.chunk_texts,
                       [given |-> TRUE, list |-> MetaList(Len(doc.chunk_texts))],
                       backend_ok)
    /\ ready' = (ready \/ ret'.ok)
    /\ doc' = Noted(doc, "create_index", ret'.ok, "save_index")
    /\ UNCHANGED <<disk, norm, emb, chunkVars>>

\* os.makedirs(index_dir, exist_ok=True); rag.save_index(index_path)
\* (lines 186-190); dir_ok: the directory can be made
UploadSaveIndex ==
    /\ doc.pc = "save_index"
    /\ \E dir_ok \in BOOLEAN, io_ok \in BOOLEAN :
          IF dir_ok
          THEN /\ save_index(index_path, io_ok)
               /\ doc' = Noted(doc, "save_index", ret'.ok, "complete")
          ELSE /\ doc' = Noted(doc, "save_index", FALSE, "complete")
               /\ trip' = NoTrip
               /\ UNCHANGED <<disk, ret>>
    /\ UNCHANGED <<rag, ready, norm, emb, chunkVars>>

\* db.update_document_processing(document_id, "completed", index_path,
\* stats['total_chunks']) (lines 192-197)
MarkCompleted ==
    /\ doc.pc = "complete"
    /\ doc' = [update_document_processing(doc, "completed", <<index_path>>,
                                          <<Len(doc.chunk_texts)>>)
                  EXCEPT !.pc = "done"]
    /\ UNCHANGED <<norm, emb, chunkVars, ragVars>>

\* except Exception: db.update_document_processing(document_id, "failed")
\* (lines 208-211)
MarkFailed ==
    /\ doc.pc = "except"
    /\ doc' = [update_document_processing(doc, "failed", <<>>, <<>>)
                  EXCEPT !.pc = "done"]
    /\ UNCHANGED <<norm, emb, chunkVars, ragVars>>

\* the chat page offers the completed documents only (chat.py line 75) and,
\* for a question on one of them, constructs a RAGSystem (chat.py lines
\* 289-295)
ChatPageNewRag ==
    /\ doc.pc = "done"
    /\ doc.status = "completed"
    /\ doc' = [doc EXCEPT !.pc = "page_load"]
    /\ rag' = FreshRag
    /\ ret' = Ret("init", "", TRUE, <<>>, 0)
    /\ ready' = FALSE
    /\ trip' = NoTrip
    /\ UNCHANGED <<disk, norm, emb, chunkVars>>

\* rag.load_index(current_document['faiss_index_path']) (chat.py line 298);
\* with a NULL path the call raises on None + ".faiss" (rag_system.py
\* line 118)
ChatPageLoadIndex ==
    /\ doc.pc = "page_load"
    /\ IF doc.faiss_index_path = <<>>
       THEN /\ ret' = Ret("load_index", "", FALSE, <<>>, 0)
            /\ trip' = NoTrip
            /\ UNCHANGED rag
       ELSE load_index(doc.faiss_index_path[1])
    /\ ready' = (ready \/ ret'.ok)
    /\ doc' = [doc EXCEPT !.pc = IF ret'.ok THEN "page_chat" ELSE "done"]
    /\ UNCHANGED <<disk, norm, emb, chunkVars>>

\* rag.chat(query=prompt, ...) (chat.py lines 309-314)
ChatPageChat ==
    /\ doc.pc = "page_chat"
    /\ \E query \in Queries, k \in 1..MaxK, call \in ChatCalls,
          oks \in {<<TRUE, TRUE>>, <<FALSE, TRUE>>, <<TRUE, FALSE>>} :
          chat(query, k, call, oks[1], oks[2])
    /\ doc' = [doc EXCEPT !.pc = "done"]
    /\ trip' = NoTrip
    /\ UNCHANGED <<disk, ready, norm, emb, chunkVars>>

UploadNext ==
    \/ CreateDocument
    \/ MarkProcessing
    \/ ProcessDocument
    \/ NewUploadRag
    \/ UploadCreateIndex
    \/ UploadSaveIndex
    \/ MarkCompleted
    \/ MarkFailed
    \/ ChatPageNewRag
    \/ ChatPageLoadIndex
    \/ ChatPageChat

UploadSpec == Init /\ [][UploadNext]_vars

----------------------------------------------------------------------------
(* create_chunks called with source metadata, as process_document calls it *)

\* the metadata lists a caller may pass: None, an empty list, the pages of a
\* PDF, paragraphs with a gap between their ranges, entries whose ranges
\* overlap, and an entry without a range followed by the entry of a TXT file
SegmentLists ==
    {NoSegments,
     [given |-> TRUE, list |-> <<>>],
     [given |-> TRUE, list |->
        <<[page |-> 1, total_pages |-> 2, char_start |-> 0, char_end |-> 2],
          [page |-> 2, total_pages |-> 2, char_start |-> 2, char_end |-> 4]>>],
     [given |-> TRUE, list |->
        <<[paragraph |-> 1, char_start |-> 0, char_end |-> 1],
          [paragraph |-> 2, char_start |-> 3, char_end |-> 5]>>],
     [given |-> TRUE, list |->
        <<[page |-> 1, total_pages |-> 2, char_start |-> 0, char_end |-> 3],
          [page |-> 2, total_pages |-> 2, char_start |-> 1, char_end |-> 5]>>],
     [given |-> TRUE, list |->
        <<[page |-> 9],
          [format |-> "txt", char_start |-> 0, char_end |-> 4]>>]}

ChunkMetaInit ==
    /\ pc = "call"
    /\ text \in SeqsUpTo(ChunkAlphabet, MaxMetaTextLen)
    /\ chunk_size \in 1..MaxChunkSize
    /\ chunk_overlap \in 0..(chunk_size - 1)
    /\ start = 0
    /\ chunk_id = 0
    /\ chunks = <<>>
    /\ source_metadata \in SegmentLists
    /\ emb = EmbIdle
    /\ doc = NoDoc
    /\ norm = [pc |-> "idle", raw |-> <<>>, once |-> <<>>, twice |-> <<>>]
    /\ RagIdle

ChunkMetaSpec == ChunkMetaInit /\ [][ChunkNext]_vars

----------------------------------------------------------------------------
(* create_chunks as the upload page configures it, on texts of 2500         *)
(* characters                                                                *)

\* DocumentProcessor(chunk_size=1000, chunk_overlap=200)
\* (documents.py line 163)
UploadChunkSize == 1000
UploadChunkOverlap == 200

\* a text of n letters, with a full stop at 0-based position p when p < n
StopAt(n, p) == [i \in 1..n |-> IF i - 1 = p THEN "." ELSE "a"]

\* the texts given to create_chunks: 2500 characters, letters only or
\* letters with one full stop at a position that is a multiple of 25, and
\* the text of an empty document
DocTexts == {StopAt(2500, 25 * j) : j \in 0..100} \cup {<<>>}

DocChunkInit ==
    /\ pc = "call"
    /\ text \in DocTexts
    /\ chunk_size = UploadChunkSize
    /\ chunk_overlap = UploadChunkOverlap
    /\ start = 0
    /\ chunk_id = 0
    /\ chunks = <<>>
    /\ source_metadata = NoSegments
    /\ emb = EmbIdle
    /\ doc = NoDoc
    /\ norm = [pc |-> "idle", raw |-> <<>>, once |-> <<>>, twice |-> <<>>]
    /\ RagIdle

DocChunkSpec == DocChunkInit /\ [][ChunkNext]_vars

----------------------------------------------------------------------------
(* Driver for create_embeddings: one call on a list of texts *)

\* n texts, all "t1" but the one at position m (none when m is 0 or m > n)
MarkedTexts(n, m) == [i \in 1..n |-> IF i = m THEN "t2" ELSE "t1"]

EmbedInit ==
    /\ emb \in {[pc |-> "call", texts |-> MarkedTexts(n, m), out |-> <<>>,
                  calls |-> 0] : n \in 0..MaxTexts, m \in 0..MaxTexts}
    /\ norm = [pc |-> "idle", raw |-> <<>>, once |-> <<>>, twice |-> <<>>]
    /\ pc = "idle"
    /\ text = <<>>
    /\ chunk_size = 1
    /\ chunk_overlap = 0
    /\ start = 0
    /\ chunk_id = 0
    /\ chunks = <<>>
    /\ source_metadata = NoSegments
    /\ doc = NoDoc
    /\ RagIdle

\* create_embeddings(texts) (lines 36-61); failed_call: the backend call that
\* raises, 0 when every call answers
CreateEmbeddings ==
    /\ emb.pc = "call"
    /\ \E failed_call \in 0..BatchCount(Len(emb.texts)) :
          emb' = IF failed_call = 0
                 THEN [emb EXCEPT !.pc = "returned",
                                  !.out = create_embeddings(emb.texts),
                                  !.calls = BatchCount(Len(emb.texts))]
                 ELSE [emb EXCEPT !.pc = "raised", !.calls = failed_call]
    /\ UNCHANGED <<norm, doc, chunkVars, ragVars>>

EmbedNext == CreateEmbeddings

EmbedSpec == EmbedInit /\ [][EmbedNext]_vars

----------------------------------------------------------------------------
(* Driver for clean_text: normalise a raw text, then normalise the result *)

CleanInit ==
    /\ norm \in {[pc |-> "raw", raw |-> r, once |-> <<>>, twice |-> <<>>] :
                    r \in SeqsUpTo(CleanAlphabet, MaxRawLen)}
    /\ pc = "idle"
    /\ text = <<>>
    /\ chunk_size = 1
    /\ chunk_overlap = 0
    /\ start = 0
    /\ chunk_id = 0
    /\ chunks = <<>>
    /\ source_metadata = NoSegments
    /\ emb = EmbIdle
    /\ doc = NoDoc
    /\ RagIdle

\* clean_text(raw)
CleanOnce ==
    /\ norm.pc = "raw"
    /\ norm' = [norm EXCEPT !.pc = "once", !.once = clean_text(norm.raw)]
    /\ UNCHANGED <<chunkVars, ragVars, emb, doc>>

\* clean_text(clean_text(raw))
CleanTwice ==
    /\ norm.pc = "once"
    /\ norm' = [norm EXCEPT !.pc = "twice", !.twice = clean_text(norm.once)]
    /\ UNCHANGED <<chunkVars, ragVars, emb, doc>>

CleanNext == CleanOnce \/ CleanTwice

CleanSpec == CleanInit /\ [][CleanNext]_vars

----------------------------------------------------------------------------
(* Claims about create_chunks, checked under ChunkSpec *)

\* C1: create_chunks terminates.  The loop's next state is a function of
\* `start` alone (text and configuration are fixed), so the scan reaches an
\* exit exactly when every iteration that stays in the loop moves `start`
\* strictly forward; an iteration that leaves `start` where it was repeats
\* forever.
C1_ScanTerminates == [][(pc = "loop" /\ pc' = "loop") => start' > start]_vars

\* C2: the [char_start, char_end) ranges of the returned chunks cover every
\* position 0 .. len(text)-1 of the normalized text.
C2_Coverage ==
    pc = "done" =>
        \A i \in 0..(Len(text) - 1) :
            \E k \in 1..Len(chunks) :
                chunks[k].char_start <= i /\ i < chunks[k].char_end

\* C3: in the returned list chunk_id is 0, 1, 2, ... in list order and
\* char_start is strictly increasing.
C3_Ordering ==
    pc = "done" =>
        /\ \A k \in 1..Len(chunks) : chunks[k].chunk_id = k - 1
        /\ \A k \in 1..(Len(chunks) - 1) :
              /\ chunks[k + 1].chunk_id > chunks[k].chunk_id
              /\ chunks[k + 1].char_start > chunks[k].char_start

\* a returned list of at least three chunks, one of them cut at a sentence end
C3_Witness ==
    /\ pc = "done"
    /\ Len(chunks) >= 3
    /\ \E k \in 1..Len(chunks) :
          chunks[k].char_end < chunks[k].char_start + chunk_size

----------------------------------------------------------------------------
(* Claims about clean_text, checked under CleanSpec *)

\* C4: clean_text is idempotent: clean_text(clean_text(t)) = clean_text(t).
C4_Idempotent == norm.pc = "twice" => norm.twice = norm.once

----------------------------------------------------------------------------
(* Claims about RAGSystem, checked under Spec *)

\* the instance holds one chunk text and one metadata dict per indexed vector
Consistent(r) ==
    /\ r.index # None
    /\ r.index.ntotal = Len(r.chunks)
    /\ r.index.ntotal = Len(r.metadata)

\* C5: search(query, k) with k greater than the number n of indexed vectors
\* returns exactly n results, one per indexed chunk, by ascending distance,
\* and none of them comes from an unfilled result slot.
C5_KClamped ==
    (ret.op = "search" /\ ret.ok /\ Consistent(rag) /\ ret.k > rag.index.ntotal) =>
        /\ Len(ret.val) = rag.index.ntotal
        /\ \A s \in 1..Len(ret.val) : ret.val[s][3] # FltMax
        /\ \A s \in 1..(Len(ret.val) - 1) : ret.val[s][3] <= ret.val[s + 1][3]
        /\ \A i \in 0..(rag.index.ntotal - 1) :
              \E s \in 1..Len(ret.val) :
                  /\ ret.val[s][1] = rag.chunks[i + 1]
                  /\ ret.val[s][3] = Distance(rag.index, Embedding(ret.query), i)

\* C6: a create_index call that fails in the embedding backend leaves index,
\* chunks and metadata exactly as they were before the call.
C6_AllOrNothing ==
    [][(ret'.op = "create_index" /\ ~ret'.ok /\ ret'.calls > 0) => rag' = rag]_vars

\* the instance a successful load_index(p) must produce from the artifacts
Persisted(p) ==
    [index |-> ReadIndex(disk[p].faiss),
     chunks |-> disk[p].pkl.chunks,
     metadata |-> disk[p].pkl.metadata]

\* C7: after a load_index call, index, chunks and metadata come from the
\* same persisted index: a successful call installs the pair of artifacts,
\* a failed call leaves index, chunks and metadata unchanged.
C7_LoadedAsPair ==
    [][(ret'.op = "load_index") =>
          IF ret'.ok THEN rag' = Persisted(ret'.path) ELSE rag' = rag]_vars

\* C8: load_index raises whenever the number of vectors in the .faiss
\* artifact differs from the length of the chunk list in the .pkl artifact.
C8_LengthMismatchRaises ==
    (/\ ret.op = "load_index"
     /\ disk[ret.path].faiss # Missing
     /\ disk[ret.path].pkl # Missing
     /\ ReadIndex(disk[ret.path].faiss).ntotal # Len(disk[ret.path].pkl.chunks))
        => ~ret.ok

\* C9: load_index on a base path whose .pkl artifact is gone while the
\* .faiss artifact still exists raises an error.
C9_MissingSideTableRaises ==
    (/\ ret.op = "load_index"
     /\ disk[ret.path].faiss # Missing
     /\ disk[ret.path].pkl = Missing)
        => ~ret.ok

\* load_index was just called on a path that has a .faiss but no .pkl file
C9_Witness ==
    /\ ret.op = "load_index"
    /\ disk[ret.path].faiss # Missing
    /\ disk[ret.path].pkl = Missing
    /\ ~ret.ok

\* C10: after create_index, save_index(P) and load_index(P) on a fresh
\* RAGSystem, the loaded instance holds the chunks, the metadata and the
\* vectors of the saved one, position by position, and answers every search
\* with the same ordered (chunk_text, metadata, distance) results.
C10_RoundTrip ==
    trip.phase = 4 =>
        /\ rag.chunks = trip.saved.chunks
        /\ rag.metadata = trip.saved.metadata
        /\ rag.index # None
        /\ rag.index.d = trip.saved.index.d
        /\ rag.index.ntotal = trip.saved.index.ntotal
        /\ \A i \in 0..(rag.index.ntotal - 1) :
              VectorAt(rag.index, i) = VectorAt(trip.saved.index, i)
        /\ \A q \in Queries, k \in 1..MaxK :
              /\ IndexSearch(rag.index, Embedding(q), k)
                    = IndexSearch(trip.saved.index, Embedding(q), k)
              /\ Accepted(rag, IndexSearch(rag.index, Embedding(q), k))
                    = Accepted(trip.saved,
                               IndexSearch(trip.saved.index, Embedding(q), k))

\* a fresh instance has loaded an index of two chunks or more that was built
\* with caller-supplied metadata and saved
C10_Witness ==
    /\ trip.phase = 4
    /\ ret.op = "load_index" /\ ret.ok
    /\ Len(rag.chunks) >= 2
    /\ rag.metadata = MetaList(Len(rag.chunks))

\* C11: create_index called with an empty chunk list fails with an error and
\* makes no call to the embedding backend.
C11_EmptyListFailsFast ==
    (ret.op = "create_index" /\ rag.chunks = <<>>) =>
        (~ret.ok /\ ret.calls = 0)

\* create_index([]) was just called on an instance that holds an index
C11_Witness ==
    /\ ret.op = "create_index"
    /\ rag.chunks = <<>>
    /\ ~ret.ok
    /\ rag.index # None

\* C12: on an instance on which no create_index or load_index has returned,
\* search and chat raise, and they do so before any call to the embedding
\* backend or the generation backend.
C12_NotReadyFailsFast ==
    (~ready /\ ret.op \in {"search", "chat"}) =>
        (~ret.ok /\ ret.calls = 0 /\ ret.gen_calls = 0)

----------------------------------------------------------------------------
(* Claims about chat and the generation calls, checked under GenSpec *)

\* the user turn of the messages the last call handed to the backend
UserTurn == ret.sent.messages[Len(ret.sent.messages)]

\* C14: chat returns as sources exactly the results of its search, nearest
\* first, and the context handed to the generation backend is the texts of
\* those sources in that order: source i is the chunk labelled [Context i].
C14_SourcesAreContext ==
    (ret.op = "chat" /\ ret.ok) =>
        LET results == Resolve(rag, IndexSearch(rag.index,
                                                Embedding(ret.query), ret.k))
            sources == ret.val.sources
        IN  /\ Len(sources) = Len(results)
            /\ \A i \in 1..Len(sources) :
                  /\ sources[i].text = results[i][1]
                  /\ sources[i].metadata = results[i][2]
                  /\ sources[i].distance = results[i][3]
            /\ \A i \in 1..(Len(sources) - 1) :
                  sources[i].distance <= sources[i + 1].distance
            /\ Len(UserTurn.context) = Len(sources)
            /\ \A i \in 1..Len(sources) :
                  /\ UserTurn.context[i].label = i
                  /\ UserTurn.context[i].chunk = sources[i].text

\* chat returned two sources or more, with different texts
C14_Witness ==
    /\ ret.op = "chat" /\ ret.ok
    /\ Len(ret.val.sources) >= 2
    /\ ret.val.sources[1].text # ret.val.sources[2].text

\* C15: search, chat, generate_quiz_questions and generate_flashcards leave
\* index, chunks and metadata as they were, whether they return or raise.
C15_QueriesReadOnly ==
    [][(ret'.op \in {"search", "chat", "generate_quiz_questions",
                     "generate_flashcards"}) => rag' = rag]_vars

\* chat has just failed in the generation backend on a built instance
C15_Witness ==
    /\ ret.op = "chat"
    /\ ~ret.ok
    /\ ret.gen_calls = 1
    /\ rag.index # None
    /\ Len(rag.chunks) >= 2

----------------------------------------------------------------------------
(* Claim about create_embeddings, checked under EmbedSpec *)

\* C13: for every list of texts create_embeddings returns len(texts) vectors
\* and the vector at position i is the embedding of texts[i], whatever the
\* length is relative to the batch size.
C13_EmbeddingAlignment ==
    emb.pc = "returned" =>
        /\ Len(emb.out) = Len(emb.texts)
        /\ \A i \in 1..Len(emb.texts) : emb.out[i] = Embedding(emb.texts[i])

\* a returned call that took three batches, the last one short, on a list
\* whose distinguished text lies beyond the first batch
C13_Witness ==
    /\ emb.pc = "returned"
    /\ Len(emb.texts) > 2 * batch_size
    /\ Len(emb.texts) % batch_size # 0
    /\ emb.calls = 3
    /\ \E i \in (batch_size + 1)..Len(emb.texts) : emb.texts[i] = "t2"

----------------------------------------------------------------------------
(* Further claims about create_chunks *)

\* C16: for a non-empty normalized text shorter than chunk_size, create_chunks
\* returns exactly one chunk whose text is the whole text, with char_start = 0
\* and char_end = len(text).  Checked under ChunkSpec.
C16_ShortTextOneChunk ==
    (pc = "done" /\ 0 < Len(text) /\ Len(text) < chunk_size) =>
        /\ Len(chunks) = 1
        /\ chunks[1].text = text
        /\ chunks[1].char_start = 0
        /\ chunks[1].char_end = Len(text)

\* C17: no chunk of create_chunks has the empty string as its text, and for a
\* text that normalizes to the empty string the returned list is empty.
\* Checked under ChunkSpec.
C17_NoEmptyChunk ==
    /\ \A k \in 1..Len(chunks) : chunks[k].text # <<>>
    /\ (pc = "done" /\ text = <<>>) => chunks = <<>>

\* a returned list for which the scan passed over a window holding one space
C17_Witness ==
    /\ pc = "done"
    /\ chunk_size = 1
    /\ text = <<"a", SP, "a">>
    /\ Len(chunks) = 2

\* C18 as stated: for consecutive returned chunks c_i, c_{i+1},
\* c_i.char_end - c_{i+1}.char_start = chunk_overlap whenever the end of c_i
\* was not moved to a sentence end.  Checked under ChunkSpec.
C18_OverlapExact ==
    pc = "done" =>
        \A i \in 1..(Len(chunks) - 1) :
            ~SnapTaken(text, chunks[i].char_start, chunk_size) =>
                chunks[i].char_end - chunks[i + 1].char_start = chunk_overlap

\* C18 amended: for consecutive returned chunks c_i, c_{i+1},
\* c_i.char_end - c_{i+1}.char_start = chunk_overlap whenever the window that
\* begins at c_i.char_end - chunk_overlap is not blank, whether or not the end
\* of c_i was moved to a sentence end.  Checked under ChunkSpec.
C18_OverlapExactUnlessSkipped ==
    pc = "done" =>
        \A i \in 1..(Len(chunks) - 1) :
            LET s == chunks[i].char_end - chunk_overlap
            IN  Strip(Slice(text, s, ChunkEnd(text, s, chunk_size))) # <<>> =>
                    chunks[i].char_end - chunks[i + 1].char_start
                        = chunk_overlap

\* two returned chunks that overlap, the first one cut at a sentence end
C18_Witness ==
    /\ pc = "done"
    /\ Len(chunks) >= 2
    /\ chunk_overlap > 0
    /\ SnapTaken(text, chunks[1].char_start, chunk_size)
    /\ chunks[1].char_end < chunks[1].char_start + chunk_size
    /\ chunks[1].char_end - chunks[2].char_start = chunk_overlap

\* the positions of the metadata entries whose range holds offset s
Containing(s) ==
    {i \in 1..Len(source_metadata.list) :
        LET meta == source_metadata.list[i]
        IN  /\ {"char_start", "char_end"} \subseteq DOMAIN meta
            /\ meta["char_start"] <= s
            /\ s < meta["char_end"]}

\* C19: each chunk carries the keys, other than char_start and char_end, of
\* the first metadata entry in list order whose [char_start, char_end) range
\* holds the chunk's char_start, with that entry's values, and no key of any
\* other entry; a chunk whose start no entry holds carries no such key.
\* Checked under ChunkMetaSpec.
C19_FirstSegmentWins ==
    \A k \in 1..Len(chunks) :
        LET c == chunks[k]
            hits == Containing(c.char_start)
        IN  IF hits = {}
            THEN DOMAIN c = BaseKeys
            ELSE LET first == CHOOSE i \in hits : \A j \in hits : i <= j
                     meta == source_metadata.list[first]
                     keys == DOMAIN meta \ {"char_start", "char_end"}
                 IN  /\ DOMAIN c = BaseKeys \cup keys
                     /\ \A key \in keys : c[key] = meta[key]

\* a chunk whose start lies in the ranges of two entries with different
\* values, returned together with a chunk that begins in the first entry only
C19_Witness ==
    /\ pc = "done"
    /\ \E k \in 1..Len(chunks) :
          /\ Cardinality(Containing(chunks[k].char_start)) = 2
          /\ chunks[k]["page"] = 1
    /\ \E k \in 1..Len(chunks) :
          Cardinality(Containing(chunks[k].char_start)) = 1

----------------------------------------------------------------------------
(* Further claim about clean_text, checked under CleanSpec *)

\* t has a run of two or more newlines between two visible characters
ParagraphBreak(t) ==
    \E i, j \in 1..Len(t) :
        /\ j >= i + 3
        /\ t[i] \notin Whitespace \cup {NUL}
        /\ t[j] \notin Whitespace \cup {NUL}
        /\ \A k \in (i + 1)..(j - 1) : t[k] = NL

\* t has two newlines in a row
DoubleNewline(t) == \E k \in 1..(Len(t) - 1) : t[k] = NL /\ t[k + 1] = NL

\* C20: where the raw text has a run of two or more newlines between
\* non-whitespace text, the output of clean_text has two consecutive newlines.
C20_ParagraphBreaksKept ==
    (norm.pc # "raw" /\ ParagraphBreak(norm.raw)) => DoubleNewline(norm.once)

----------------------------------------------------------------------------
(* Further claims about clean_text, create_chunks and RAGSystem *)

\* C21: the output of clean_text holds no null byte and no other
\* non-printable control character.  Checked under CleanSpec.
C21_NoControlCharacters ==
    norm.pc # "raw" =>
        \A i \in 1..Len(norm.once) : norm.once[i] \notin {NUL, BEL}

\* the positions of the sentence ends '.', '!', '?' in [s, s + chunk_size)
SentenceEnds(s) ==
    {i \in s..(s + chunk_size - 1) :
        i < Len(text) /\ text[i + 1] \in {".", "!", "?"}}

\* C25: a chunk that begins at s with s + chunk_size before the end of the
\* text ends one past the last sentence end of [s, s + chunk_size) when that
\* sentence end lies after the midpoint s + chunk_size/2, and at
\* s + chunk_size otherwise; every chunk but the last of the list has
\* chunk_size/2 < char_end - char_start <= chunk_size.  Checked under
\* ChunkSpec.
C25_SnapAfterMidpoint ==
    \A k \in 1..Len(chunks) :
        LET s == chunks[k].char_start
            e == chunks[k].char_end
            ends == SentenceEnds(s)
            last == CHOOSE i \in ends : \A j \in ends : j <= i
        IN  /\ s + chunk_size < Len(text) =>
                  IF ends # {} /\ 2 * last > 2 * s + chunk_size
                  THEN e = last + 1
                  ELSE e = s + chunk_size
            /\ k < Len(chunks) =>
                  /\ 2 * (e - s) > chunk_size
                  /\ e - s <= chunk_size

\* a returned list with a chunk cut short at a sentence end and an earlier or
\* later chunk whose window holds a sentence end before the midpoint only
C25_Witness ==
    /\ pc = "done"
    /\ \E k \in 1..(Len(chunks) - 1) :
          chunks[k].char_end < chunks[k].char_start + chunk_size
    /\ \E k \in 1..(Len(chunks) - 1) :
          /\ SentenceEnds(chunks[k].char_start) # {}
          /\ chunks[k].char_end = chunks[k].char_start + chunk_size
          /\ text[chunks[k].char_end] # "."

\* C26: every returned chunk has 0 <= char_start < char_end <= len(text),
\* the last chunk included.  Checked under ChunkSpec.
C26_OffsetsInsideText ==
    pc = "done" =>
        \A k \in 1..Len(chunks) :
            /\ 0 <= chunks[k].char_start
            /\ chunks[k].char_start < chunks[k].char_end
            /\ chunks[k].char_end <= Len(text)

\* C29: after any sequence of create_index, save_index, load_index and search
\* calls on one instance, failed calls and calls with a metadata list of
\* another length included, a non-null index holds as many vectors as there
\* are chunks and as there are metadata entries.  Checked under Spec.
C29_IndexMatchesLists ==
    rag.index # None =>
        /\ rag.index.ntotal = Len(rag.chunks)
        /\ rag.index.ntotal = Len(rag.metadata)

----------------------------------------------------------------------------
(* Further claims about chat and the generation calls *)

\* C23: generate_quiz_questions and generate_flashcards return a list of
\* parsed records, or raise when the backend's text cannot be parsed into
\* records; a text that is no JSON or is empty never comes back as a result.
\* Checked under GenSpec.
C23_ParsedOrRaised ==
    (ret.op \in {"generate_quiz_questions", "generate_flashcards"} /\ ret.ok) =>
        /\ ret.val.type = "list"
        /\ ret.val.response \notin {"not_json", ""}

\* C27: the messages chat hands to the generation backend are one system
\* message, then the chat_history entries as given and in order, then one
\* user message holding the context entries numbered 1, 2, ... in retrieval
\* order and the question; the temperature handed over is the one given.
\* Checked under GenSpec.
C27_MessageSequence ==
    (ret.op = "chat" /\ ret.gen_calls = 1) =>
        LET messages == ret.sent.messages
            history == ret.chat_history
            last == messages[Len(messages)]
            results == Resolve(rag, IndexSearch(rag.index,
                                                Embedding(ret.query), ret.k))
        IN  /\ Len(messages) = Len(history) + 2
            /\ messages[1].role = "system"
            /\ \A i \in 1..Len(history) : messages[i + 1] = history[i]
            /\ last.role = "user"
            /\ last.question = ret.query
            /\ Len(last.context) = Len(results)
            /\ \A i \in 1..Len(results) :
                  /\ last.context[i].label = i
                  /\ last.context[i].chunk = results[i][1]
            /\ ret.sent.temperature = ret.temperature

\* a chat call with two earlier turns and a temperature other than the
\* default, on an instance that gave it two context chunks
C27_Witness ==
    /\ ret.op = "chat" /\ ret.ok
    /\ Len(ret.chat_history) = 2
    /\ ret.temperature # DefaultTemperature
    /\ Len(ret.sent.messages) = 4
    /\ Len(ret.sent.messages[4].context) >= 2

\* C28: generate_quiz_questions and generate_flashcards build their context
\* from min(10, n) of the n chunks of the instance, at pairwise distinct
\* positions, and from nothing else.  Checked under SampleSpec.
C28_SampleOfChunks ==
    (ret.op \in {"generate_quiz_questions", "generate_flashcards"}) =>
        LET n == Len(rag.chunks)
            idx == ret.sample_indices
            context == ret.sent.messages[2].context
        IN  /\ Len(context) = IF n < 10 THEN n ELSE 10
            /\ Len(idx) = Len(context)
            /\ \A i \in 1..Len(idx) : idx[i] \in 0..(n - 1)
            /\ \A i, j \in 1..Len(idx) : i # j => idx[i] # idx[j]
            /\ \A i \in 1..Len(idx) : context[i] = rag.chunks[idx[i] + 1]

\* a quiz built from ten of more than ten chunks, the draw not beginning at
\* the first chunk
C28_Witness ==
    /\ ret.op = "generate_quiz_questions"
    /\ ret.ok
    /\ Len(rag.chunks) > 10
    /\ Len(ret.sample_indices) = 10
    /\ ret.sample_indices[1] # 0

----------------------------------------------------------------------------
(* Claim about create_chunks on a text of 2500 characters, checked under   *)
(* DocChunkSpec                                                            *)

----------------------------------------------------------------------------
(* Claims about the upload handler and the document row, checked under     *)
(* UploadSpec                                                              *)

\* the steps of the try block in the order the handler takes them
UploadSteps == <<"process_document", "settings", "create_index", "save_index">>

C30_CompletedHasIndex ==
    doc.status = "completed" =>
        /\ doc.faiss_index_path # <<>>
        /\ doc.faiss_index_path[1] # ""
        /\ doc.chunk_count # <<>>
        /\ doc.chunk_count[1] >= 1

\* the chat page has loaded the index of a completed document from the path
\* in its row
C30_Witness ==
    /\ doc.status = "completed"
    /\ doc.pc = "page_chat"
    /\ ret.op = "load_index" /\ ret.ok
    /\ ret.path = doc.faiss_index_path[1]
    /\ doc.chunk_count = <<Len(rag.chunks)>>

====
